---- MODULE Spec2Model ----
(***************************************************************************)
(* The receipt-enrichment workflow: runWorkflow.execute (the orchestrator) *)
(* driving processReceipt.execute (extraction and saving), searchWeb       *)
(* .execute (vendor lookup) and categorizeTransaction.execute, all writing *)
(* to one dataStream.  One action is the code between two awaits.          *)
(***************************************************************************)
EXTENDS Integers, Sequences, FiniteSets, TLC

(***************************************************************************)
(* Bounds of the model.                                                    *)
(***************************************************************************)
\* object deltas one structured-extraction stream delivers at most
MaxIncrements == 2
\* object deltas one categorization stream delivers at most
MaxCatDeltas == 1
\* entries the search provider returns at most
MaxProviderResults == 2

(***************************************************************************)
(* JavaScript values.  undefined and null are records of their own, so     *)
(* that every optional field holds a record; the empty string stands for a *)
(* missing string (both are falsy in every test the code makes).           *)
(***************************************************************************)
Undefined == [undefined |-> TRUE]
Null == [null |-> TRUE]
Truthy(v) == v # Undefined /\ v # Null
HasField(v, f) == f \in DOMAIN v
\* a || b on strings
OrElse(a, b) == IF a # "" THEN a ELSE b

\* the pending and the rejected state of an awaited promise
Pending == [pending |-> TRUE]
Thrown(err) == [thrown |-> err]
IsThrown(v) == HasField(v, "thrown")

\* String(err?.message || err)
ErrorString(err) == err.message

(***************************************************************************)
(* Inputs.                                                                 *)
(***************************************************************************)
WorkflowNames == {"receipt_enrichment", "foo"}
ImageUrls == {"", "https://img/r.png"}
ImageDescriptions == {"", "Coffee shop receipt, $4.50 total"}
UserIds == {"", "u1"}
ApiKeys == {"", "tvly-key"}
\* the current date, new Date().toISOString().slice(0, 10), as characters: the
\* date of the workflow run, and the dates a normalizer is called at on its own
RunDate == <<"2", "0", "2", "6", "-", "1", "1", "-", "0", "3">>
Todays == {RunDate, <<"2", "0", "2", "7", "-", "0", "1", "-", "0", "1">>}

\* a string value as its characters; a value that is not a string is another record
Str(chars) == [chars |-> chars]

\* line items and objects the structured-extraction stream can deliver: a
\* partial one without merchant name, items, date and time; a complete one with
\* the date and time in the forms the schema asks for; and one with them in
\* other forms
Items == {<<>>, <<[name |-> "Latte", quantity |-> 1, totalPrice |-> 5]>>}
CanonicalDate == Str(<<"2", "0", "2", "4", "-", "0", "1", "-", "0", "2">>)
CanonicalTime == Str(<<"0", "9", ":", "0", "5">>)
ReceiptObjects ==
  {[merchantName |-> IF it = <<>> THEN "" ELSE "Acme", items |-> it, imageUrl |-> "",
    receiptDate |-> IF it = <<>> THEN Undefined ELSE CanonicalDate,
    receiptTime |-> IF it = <<>> THEN Undefined ELSE CanonicalTime] : it \in Items}
  \cup
  {[merchantName |-> "Acme", items |-> <<>>, imageUrl |-> "",
    receiptDate |-> Str(<<"1", "3", "/", "4", "5", "/", "2", "0", "2", "4">>),
    receiptTime |-> Str(<<"9", ":", "0", "5", ":", "3", "0">>)]}

\* transcripts of the vision stream, as sequences of characters
Transcripts == {<<>>, <<" ">>, <<"T">>, <<" ", "T", " ">>}

\* objects the categorization stream can deliver (confidence in tenths)
CatObjects == {[category |-> "Groceries", confidence |-> 9, rationale |-> "food items"]}

\* entries of the search provider's response
ProviderEntries ==
  {[title |-> "Acme Inc", url |-> "https://acme.test", content |-> "Acme", snippet |-> "",
    score |-> 9],
   [title |-> "", url |-> "https://b.test", content |-> "", snippet |-> "b", score |-> 5]}
RECURSIVE SeqsUpTo(_, _)
SeqsUpTo(S, n) ==
  IF n = 0 THEN {<<>>}
  ELSE SeqsUpTo(S, n - 1) \cup
       {Append(s, x) : s \in {t \in SeqsUpTo(S, n - 1) : Len(t) = n - 1}, x \in S}
\* the parsed response body: data.results is a list or missing, data.answer is a
\* string ("" when it is missing)
Answers == {"", "Acme sells coffee"}
ProviderData ==
  {[answer |-> a] : a \in Answers} \cup
  {[answer |-> a, results |-> rs] :
     a \in Answers, rs \in SeqsUpTo(ProviderEntries, MaxProviderResults)}

\* errors raised by the services the code awaits
StreamError == [message |-> "No object generated"]
NetworkError == [message |-> "fetch failed"]
JsonError == [message |-> "Unexpected token"]
ModelError == [message |-> "model unavailable"]

VARIABLES
  sessionUserId,      \* session?.user?.id, "" when there is none
  apiKey,             \* process.env.TAVILY_API_KEY, "" when unset
  defaultImageUrl,    \* runWorkflow's defaultImageUrl, "" when not given
  today,              \* new Date().toISOString().slice(0, 10), as characters
  pc,                 \* where the run is suspended
  name,               \* the workflow name of the request
  params,             \* the request's params
  ctx,                \* the WorkflowContext accumulator
  result,             \* what runWorkflow.execute returned (or raised)
  events,             \* the parts written to dataStream, in order
  consoleLog,         \* console.error output
  requests,           \* requests sent to the search provider
  db,                 \* the Receipt and ReceiptItem tables
  imageUrlFromInput,  \* processReceipt.execute: its imageUrl input
  imageDescription,   \* processReceipt.execute: its imageDescription input
  ocrText,            \* processReceipt.execute: ocrText, <<>> for null
  prompt,             \* processReceipt.execute: the prompt given to streamObject
  extractedData,      \* processReceipt.execute: extractedData
  increments,         \* object deltas received from the extraction stream
  delivered,          \* the objects of those deltas, in arrival order
  ocrFailed,          \* whether the vision stream raised
  savedReceipt,       \* saveReceiptToSupabase: savedReceipt
  receiptResult,      \* the settled extract.execute(...)
  maxResults,         \* searchWeb.execute: its maxResults input
  vendorSearchResult, \* the settled search.execute(...)
  catResult,          \* categorizeTransaction.execute: result
  catDeltas,          \* object deltas received from the categorization stream
  cat,                \* the settled categorize.execute(...)
  normInput,          \* the input of a normalizer called on its own
  dateOut,            \* what normalizeDate(normInput) returned
  timeOut,            \* what normalizeTime(normInput) returned
  storeLog,           \* the calls of the store's functions made on their own
  storeIds,           \* the receipt ids generated for them
  streamParts,        \* the stream parts the receipt artifact has received
  metadata,           \* the receipt artifact's metadata
  artifact,           \* the receipt artifact's visibility and status
  runs,               \* the locals of each of two concurrent calls of runWorkflow.execute
  searchInput         \* the input of searchWeb.execute called on its own

envVars == <<sessionUserId, apiKey, defaultImageUrl, today>>
reqVars == <<name, params>>
prVars == <<imageUrlFromInput, imageDescription, ocrText, prompt, extractedData,
            increments, savedReceipt, receiptResult>>
swVars == <<maxResults, vendorSearchResult, requests>>
catVars == <<catResult, catDeltas, cat>>
normVars == <<normInput, dateOut, timeOut>>
\* the state of the functions called on their own
storeVars == <<storeLog, storeIds>>
subVars == <<streamParts, metadata, artifact>>
ownVars == <<normVars, searchInput, storeVars, subVars, runs>>
\* the state of one workflow run
workflowVars == <<envVars, reqVars, prVars, swVars, catVars, delivered, ocrFailed, pc, ctx,
                  result, events, consoleLog, db>>
vars == <<workflowVars, ownVars>>

(***************************************************************************)
(* dataStream.write and the three emitters of runWorkflow.execute.         *)
(***************************************************************************)
Write(stream, type, data) == Append(stream, [type |-> type, data |-> data])

emitStepStart(stream, step, info) ==
  Write(stream, "data-step-start", [step |-> step, info |-> info])
\* emitStepSuccess forgetting to write
emitStepSuccessSilent(stream, step, res) == stream

emitStepSuccess(stream, step, res) ==
  Write(stream, "data-step-success", [step |-> step, result |-> res])
\* emitStepError forgetting to write
emitStepErrorSilent(stream, step, error) == stream

emitStepError(stream, step, error) ==
  Write(stream, "data-step-error", [step |-> step, error |-> error])

\* no workflow has been requested yet
NoRun ==
  /\ pc = "idle"
  /\ name = ""
  /\ params = Undefined
  /\ ctx = [receipt |-> Undefined, merchantInfo |-> Undefined, categorization |-> Undefined]
  /\ result = Pending
  /\ events = <<>>
  /\ consoleLog = <<>>
  /\ requests = <<>>
  /\ db = [receipt |-> <<>>, receiptItem |-> <<>>]
  /\ imageUrlFromInput = ""
  /\ imageDescription = ""
  /\ ocrText = <<>>
  /\ prompt = Undefined
  /\ extractedData = Null
  /\ increments = 0
  /\ delivered = <<>>
  /\ ocrFailed = FALSE
  /\ savedReceipt = Undefined
  /\ receiptResult = Pending
  /\ maxResults = 5
  /\ vendorSearchResult = Pending
  /\ catResult = Null
  /\ catDeltas = 0
  /\ cat = Pending

\* two calls of execute on one tool instance: they share session and dataStream
Runs == {1, 2}

\* the locals of a call that has not started: ctx, extractedData, the awaited
\* values, enriched and the returned value
RunStart ==
  [pc |-> "idle",
   ctx |-> [receipt |-> Undefined, merchantInfo |-> Undefined, categorization |-> Undefined],
   deltas |-> 0, extractedData |-> Null, receiptResult |-> Pending,
   vendorSearchResult |-> Pending, cat |-> Pending, enriched |-> Undefined,
   result |-> Pending]

\* the receipt artifact has received no part yet: initialize sets no metadata
NoParts ==
  /\ runs = [r \in Runs |-> RunStart]
  /\ streamParts = <<>>
  /\ metadata = Undefined
  /\ artifact = [isVisible |-> FALSE, status |-> "idle"]

Init ==
  /\ sessionUserId \in UserIds
  /\ apiKey \in ApiKeys
  /\ defaultImageUrl \in ImageUrls
  /\ today = RunDate
  /\ normInput = Undefined
  /\ dateOut = Pending
  /\ timeOut = Pending
  /\ searchInput = Undefined
  /\ storeLog = <<>>
  /\ storeIds = 0
  /\ NoParts
  /\ NoRun

(***************************************************************************)
(* processReceipt.execute                                                  *)
(***************************************************************************)
\* generateUUID()
generateUUID == "uuid-1"

\* the four parts execute writes before its try block
ProcessReceiptBegin(stream) ==
  LET s1 == Write(stream, "data-kind", [kind |-> "receipt"])
      s2 == Write(s1, "data-id", [id |-> generateUUID])
      s3 == Write(s2, "data-title", [title |-> "Receipt Data"])
  IN Write(s3, "data-clear", Null)

\* transcript.trim()
IsSpace(c) == c = " "
RECURSIVE TrimStart(_)
TrimStart(t) == IF t # <<>> /\ IsSpace(Head(t)) THEN TrimStart(Tail(t)) ELSE t
RECURSIVE TrimEnd(_)
TrimEnd(t) ==
  IF t # <<>> /\ IsSpace(t[Len(t)]) THEN TrimEnd(SubSeq(t, 1, Len(t) - 1)) ELSE t
Trim(t) == TrimEnd(TrimStart(t))

\* the prompt of the streamObject call
ExtractionPrompt(ocr, description) ==
  IF ocr # <<>> THEN [ocrTranscript |-> ocr] ELSE [description |-> description]

\* the success return of execute
ProcessReceiptSuccess(data) ==
  [id |-> generateUUID, title |-> "Receipt Data", kind |-> "receipt",
   content |-> "Receipt has been processed and data extracted successfully.",
   extractedData |-> data]

\* the catch block of execute
ProcessReceiptCatch(log, error) ==
  [consoleLog |-> Append(log, [label |-> "Error processing receipt:", error |-> error]),
   value |-> [error |-> "Failed to process receipt. Please try again."]]

\* the end of execute's try block once nothing is left to save
FinishProcessReceipt ==
  /\ events' = Write(events, "data-finish", Null)
  /\ receiptResult' = ProcessReceiptSuccess(extractedData)
  /\ pc' = "extractSettled"

\* execute without its catch block: the error leaves execute
FailProcessReceiptRethrow(log, error) ==
  /\ consoleLog' = log
  /\ receiptResult' = Thrown(error)
  /\ pc' = "extractSettled"
  /\ UNCHANGED events

\* execute's catch block taken with `error`, after `log` was written
FailProcessReceipt(log, error) ==
  LET c == ProcessReceiptCatch(log, error)
  IN /\ consoleLog' = c.consoleLog
     /\ receiptResult' = c.value
     /\ pc' = "extractSettled"
     /\ UNCHANGED events

\* the vision stream ends with `transcript` accumulated from its text deltas
OcrEnd(transcript) ==
  /\ pc = "ocr"
  /\ ocrText' = Trim(transcript)
  /\ prompt' = ExtractionPrompt(ocrText', imageDescription)
  /\ pc' = "extractStream"
  /\ UNCHANGED <<envVars, ownVars, delivered, ocrFailed,
                 reqVars, swVars, catVars, ctx, result, events, consoleLog, db,
                 imageUrlFromInput, imageDescription, extractedData, increments,
                 savedReceipt, receiptResult>>

\* the vision stream raises and the error reaches the catch block of execute
OcrThrowSurfaced ==
  /\ pc = "ocr"
  /\ FailProcessReceipt(consoleLog, [message |-> "vision unavailable"])
  /\ UNCHANGED <<envVars, ownVars, delivered, ocrFailed, reqVars, swVars, catVars, ctx,
                 result, db,
                 imageUrlFromInput, imageDescription, ocrText, prompt, extractedData,
                 increments, savedReceipt>>

\* the vision stream raises: the inner catch sets ocrText to null
OcrThrow ==
  /\ pc = "ocr"
  /\ ocrFailed' = TRUE
  /\ ocrText' = <<>>
  /\ prompt' = ExtractionPrompt(ocrText', imageDescription)
  /\ pc' = "extractStream"
  /\ UNCHANGED <<envVars, ownVars, delivered,
                 reqVars, swVars, catVars, ctx, result, events, consoleLog, db,
                 imageUrlFromInput, imageDescription, extractedData, increments,
                 savedReceipt, receiptResult>>

\* extractedData after one object delta: the image URL is attached
AttachImageUrl(object, img) ==
  IF img # "" /\ object.imageUrl = "" THEN [object EXCEPT !.imageUrl = img] ELSE object

\* one delta arrives and is merged into the record kept so far
ExtractDeltaMerging(object) ==
  /\ pc = "extractStream"
  /\ increments < MaxIncrements
  /\ increments' = increments + 1
  /\ delivered' = Append(delivered, object)
  /\ extractedData' =
       LET o == AttachImageUrl(object, imageUrlFromInput)
       IN IF extractedData # Null /\ o.merchantName = ""
          THEN [o EXCEPT !.merchantName = extractedData.merchantName]
          ELSE o
  /\ events' = Write(events, "data-receipt", extractedData')
  /\ UNCHANGED <<envVars, ownVars, ocrFailed, reqVars, swVars, catVars, pc, ctx, result,
                 consoleLog, db,
                 imageUrlFromInput, imageDescription, ocrText, prompt, savedReceipt,
                 receiptResult>>

\* one delta of type 'object' arrives from the extraction stream
ExtractDelta(object) ==
  /\ pc = "extractStream"
  /\ increments < MaxIncrements
  /\ increments' = increments + 1
  /\ delivered' = Append(delivered, object)
  /\ extractedData' = AttachImageUrl(object, imageUrlFromInput)
  /\ events' = Write(events, "data-receipt", extractedData')
  /\ UNCHANGED <<envVars, ownVars, ocrFailed, reqVars, swVars, catVars, pc, ctx, result,
                 consoleLog, db,
                 imageUrlFromInput, imageDescription, ocrText, prompt, savedReceipt,
                 receiptResult>>

\* the extraction stream ends: save whenever there is a record
ExtractEndUnguarded ==
  /\ pc = "extractStream"
  /\ IF extractedData # Null
     THEN /\ pc' = "saveReceipt"
          /\ UNCHANGED <<events, receiptResult>>
     ELSE FinishProcessReceipt
  /\ UNCHANGED <<envVars, ownVars, delivered, ocrFailed,
                 reqVars, swVars, catVars, ctx, result, consoleLog, db,
                 imageUrlFromInput, imageDescription, ocrText, prompt, extractedData,
                 increments, savedReceipt>>

\* the extraction stream ends: save when there is a session and a record
ExtractEnd ==
  /\ pc = "extractStream"
  /\ IF sessionUserId # "" /\ extractedData # Null
     THEN /\ pc' = "saveReceipt"
          /\ UNCHANGED <<events, receiptResult>>
     ELSE FinishProcessReceipt
  /\ UNCHANGED <<envVars, ownVars, delivered, ocrFailed,
                 reqVars, swVars, catVars, ctx, result, consoleLog, db,
                 imageUrlFromInput, imageDescription, ocrText, prompt, extractedData,
                 increments, savedReceipt>>

\* the extraction stream raises
ExtractThrow ==
  /\ pc = "extractStream"
  /\ FailProcessReceipt(consoleLog, StreamError)
  /\ UNCHANGED <<envVars, ownVars, delivered, ocrFailed, reqVars, swVars, catVars, ctx,
                 result, db,
                 imageUrlFromInput, imageDescription, ocrText, prompt, extractedData,
                 increments, savedReceipt>>

(***************************************************************************)
(* normalizeDate and normalizeTime.  A string is Str(chars), its           *)
(* characters in order; any other record is a value that is not a string.  *)
(***************************************************************************)
\* typeof input === 'string'
IsString(input) == HasField(input, "chars")

\* Math.min and Math.max
Min(a, b) == IF a < b THEN a ELSE b
Max(a, b) == IF a > b THEN a ELSE b

\* \d
IsDigit(c) == c \in {"0", "1", "2", "3", "4", "5", "6", "7", "8", "9"}
AllDigits(t) == \A i \in 1..Len(t) : IsDigit(t[i])
DigitValue(c) ==
  CASE c = "0" -> 0 [] c = "1" -> 1 [] c = "2" -> 2 [] c = "3" -> 3 [] c = "4" -> 4
    [] c = "5" -> 5 [] c = "6" -> 6 [] c = "7" -> 7 [] c = "8" -> 8 [] c = "9" -> 9
DigitChar(n) ==
  CASE n = 0 -> "0" [] n = 1 -> "1" [] n = 2 -> "2" [] n = 3 -> "3" [] n = 4 -> "4"
    [] n = 5 -> "5" [] n = 6 -> "6" [] n = 7 -> "7" [] n = 8 -> "8" [] n = 9 -> "9"
\* parseInt(t, 10) of a run of digits
RECURSIVE parseInt(_)
parseInt(t) ==
  IF t = <<>> THEN 0 ELSE 10 * parseInt(SubSeq(t, 1, Len(t) - 1)) + DigitValue(t[Len(t)])
\* String(n) of a natural number
RECURSIVE String(_)
String(n) ==
  IF n < 10 THEN <<DigitChar(n)>> ELSE Append(String(n \div 10), DigitChar(n % 10))
\* t.padStart(n, c)
RECURSIVE padStart(_, _, _)
padStart(t, n, c) == IF Len(t) >= n THEN t ELSE padStart(<<c>> \o t, n, c)
\* String(Math.min(Math.max(parseInt(t, 10), lo), hi)).padStart(2, '0')
ClampPad(t, lo, hi) == padStart(String(Min(Max(parseInt(t), lo), hi)), 2, "0")

\* /^\d{4}-\d{2}-\d{2}$/.test(raw)
MatchesYmd(raw) ==
  /\ Len(raw) = 10
  /\ raw[5] = "-"
  /\ raw[8] = "-"
  /\ AllDigits(SubSeq(raw, 1, 4))
  /\ AllDigits(SubSeq(raw, 6, 7))
  /\ AllDigits(SubSeq(raw, 9, 10))

\* raw.match(/^(\d{1,2})\/(\d{1,2})\/(\d{4})$/): the captured groups, {} for null
MdyMatch(raw) ==
  {[m |-> SubSeq(raw, 1, a), d |-> SubSeq(raw, a + 2, a + b + 1),
    y |-> SubSeq(raw, a + b + 3, a + b + 6)] :
     <<a, b>> \in {<<a, b>> \in (1..2) \X (1..2) :
                     /\ Len(raw) = a + b + 6
                     /\ raw[a + 1] = "/"
                     /\ raw[a + b + 2] = "/"
                     /\ AllDigits(SubSeq(raw, 1, a))
                     /\ AllDigits(SubSeq(raw, a + 2, a + b + 1))
                     /\ AllDigits(SubSeq(raw, a + b + 3, a + b + 6))}}

\* raw.match(/^(\d{1,2}):(\d{2})(?::(\d{2}))?$/): the captured groups, {} for null
HmMatch(raw) ==
  {[h |-> SubSeq(raw, 1, a), m |-> SubSeq(raw, a + 2, a + 3)] :
     a \in {a \in 1..2 :
              /\ Len(raw) \in {a + 3, a + 6}
              /\ raw[a + 1] = ":"
              /\ AllDigits(SubSeq(raw, 1, a))
              /\ AllDigits(SubSeq(raw, a + 2, a + 3))
              /\ Len(raw) = a + 6 => raw[a + 4] = ":" /\ AllDigits(SubSeq(raw, a + 5, a + 6))}}

Sentinel == <<"0", "0", "0", "0", "-", "0", "0", "-", "0", "0">>

\* normalizeDate without the test for the sentinel
normalizeDateKeepsSentinel(input) ==
  IF ~IsString(input) THEN Str(today)
  ELSE LET raw == Trim(input.chars)
           mdy == MdyMatch(raw)
       IN IF raw = <<>> THEN Str(today)
          ELSE IF MatchesYmd(raw) THEN Str(raw)
          ELSE IF mdy # {}
               THEN LET g == CHOOSE g \in mdy : TRUE
                    IN Str(g.y \o <<"-">> \o ClampPad(g.m, 1, 12) \o <<"-">>
                           \o ClampPad(g.d, 1, 31))
               ELSE Str(today)

\* normalizeDate matching the input as it came, without trimming it
normalizeDateUntrimmed(input) ==
  IF ~IsString(input) THEN Str(today)
  ELSE LET raw == input.chars
           mdy == MdyMatch(raw)
       IN IF raw = <<>> \/ raw = Sentinel THEN Str(today)
          ELSE IF MatchesYmd(raw) THEN Str(raw)
          ELSE IF mdy # {}
               THEN LET g == CHOOSE g \in mdy : TRUE
                    IN Str(g.y \o <<"-">> \o ClampPad(g.m, 1, 12) \o <<"-">>
                           \o ClampPad(g.d, 1, 31))
               ELSE Str(today)

normalizeDate(input) ==
  IF ~IsString(input) THEN Str(today)
  ELSE LET raw == Trim(input.chars)
           mdy == MdyMatch(raw)
       IN IF raw = <<>> \/ raw = Sentinel THEN Str(today)
          ELSE IF MatchesYmd(raw) THEN Str(raw)
          ELSE IF mdy # {}
               THEN LET g == CHOOSE g \in mdy : TRUE
                    IN Str(g.y \o <<"-">> \o ClampPad(g.m, 1, 12) \o <<"-">>
                           \o ClampPad(g.d, 1, 31))
               ELSE Str(today)

\* normalizeTime without the clamp of the hour and the minute
normalizeTimeUnclamped(input) ==
  IF ~IsString(input) THEN Undefined
  ELSE LET raw == Trim(input.chars)
           hm == HmMatch(raw)
       IN IF raw = <<>> THEN Undefined
          ELSE IF hm # {}
               THEN LET g == CHOOSE g \in hm : TRUE
                    IN Str(padStart(g.h, 2, "0") \o <<":">> \o g.m)
               ELSE Undefined

normalizeTime(input) ==
  IF ~IsString(input) THEN Undefined
  ELSE LET raw == Trim(input.chars)
           hm == HmMatch(raw)
       IN IF raw = <<>> THEN Undefined
          ELSE IF hm # {}
               THEN LET g == CHOOSE g \in hm : TRUE
                    IN Str(ClampPad(g.h, 0, 23) \o <<":">> \o ClampPad(g.m, 0, 59))
               ELSE Undefined

(***************************************************************************)
(* saveReceiptToSupabase with saveReceipt and saveReceiptItems             *)
(***************************************************************************)
ChatSDKError(message) == [message |-> message, code |-> "bad_request:database"]

\* the row saveReceipt inserts for the values saveReceiptToSupabase passes
ReceiptRow(id, data, userId) ==
  [id |-> id, userId |-> userId,
   merchantName |-> OrElse(data.merchantName, "Unknown Merchant"),
   receiptDate |-> normalizeDate(data.receiptDate),
   receiptTime |-> normalizeTime(data.receiptTime),
   imageUrl |-> data.imageUrl]

\* a field of a line item that may be missing: the field's value, or `missing`
ItemField(item, field, missing) == IF HasField(item, field) THEN item[field] ELSE missing

\* one item as saveReceiptToSupabase passes it on
MapItem(item) ==
  [name |-> OrElse(ItemField(item, "name", ""), "Unknown Item"),
   quantity |-> IF ItemField(item, "quantity", 0) # 0 THEN item.quantity ELSE 1,
   totalPrice |-> ItemField(item, "totalPrice", 0)]

\* saveReceiptItems: item.totalPrice.toString() raises for an item without totalPrice
ItemRaises(item) == ~HasField(item, "totalPrice")

\* saveReceiptItems: the row inserted for one item that has a totalPrice
ItemRow(receiptId, item) ==
  [receiptId |-> receiptId,
   name |-> item.name,
   quantity |-> IF ItemField(item, "quantity", 0) # 0 THEN item.quantity ELSE 1,
   totalPrice |-> ToString(item.totalPrice)]  \* totalPrice.toString()

\* the rows saveReceiptItems inserts for the items saveReceiptToSupabase maps
ReceiptItemRows(receiptId, items) ==
  [i \in 1..Len(items) |-> ItemRow(receiptId, MapItem(items[i]))]

\* the log lines of a failed save: saveReceipt logs the database error, then
\* saveReceiptToSupabase logs the ChatSDKError it rethrows
SaveFailureLog(log, dbLogged, error) ==
  LET l1 == IF dbLogged
            THEN Append(log, [label |-> "Database error saving receipt:",
                              error |-> [message |-> "insert failed"]])
            ELSE log
  IN Append(l1, [label |-> "Error saving receipt to database:", error |-> error])

\* saveReceipt resolves with the inserted row
SaveReceiptOk ==
  /\ pc = "saveReceipt"
  /\ LET row == ReceiptRow(Len(db.receipt) + 1, extractedData, sessionUserId)
     IN /\ savedReceipt' = row
        /\ db' = [db EXCEPT !.receipt = Append(@, row)]
  /\ IF Len(extractedData.items) > 0
     THEN /\ pc' = "saveReceiptItems"
          /\ UNCHANGED <<events, receiptResult>>
     ELSE FinishProcessReceipt
  /\ UNCHANGED <<envVars, ownVars, delivered, ocrFailed, reqVars, swVars, catVars, ctx,
                 result, consoleLog,
                 imageUrlFromInput, imageDescription, ocrText, prompt, extractedData,
                 increments>>

\* the insert of saveReceipt fails
SaveReceiptThrow ==
  /\ pc = "saveReceipt"
  /\ LET error == ChatSDKError("Failed to save receipt")
     IN FailProcessReceipt(SaveFailureLog(consoleLog, TRUE, error), error)
  /\ UNCHANGED <<envVars, ownVars, delivered, ocrFailed, reqVars, swVars, catVars, ctx,
                 result, db,
                 imageUrlFromInput, imageDescription, ocrText, prompt, extractedData,
                 increments, savedReceipt>>

\* saveReceiptItems resolves
SaveReceiptItemsOk ==
  /\ pc = "saveReceiptItems"
  /\ db' = [db EXCEPT !.receiptItem =
                        @ \o ReceiptItemRows(savedReceipt.id, extractedData.items)]
  /\ FinishProcessReceipt
  /\ UNCHANGED <<envVars, ownVars, delivered, ocrFailed, reqVars, swVars, catVars, ctx,
                 result, consoleLog,
                 imageUrlFromInput, imageDescription, ocrText, prompt, extractedData,
                 increments, savedReceipt>>

\* the insert of saveReceiptItems fails
SaveReceiptItemsThrow ==
  /\ pc = "saveReceiptItems"
  /\ LET error == ChatSDKError("Failed to save receipt items")
     IN FailProcessReceipt(SaveFailureLog(consoleLog, FALSE, error), error)
  /\ UNCHANGED <<envVars, ownVars, delivered, ocrFailed, reqVars, swVars, catVars, ctx,
                 result, db,
                 imageUrlFromInput, imageDescription, ocrText, prompt, extractedData,
                 increments, savedReceipt>>

(***************************************************************************)
(* searchWeb.execute                                                       *)
(***************************************************************************)

\* max_results of the request body without the clamp
RequestedCountUnclamped(n) == n

\* max_results of the request body: Math.min(Math.max(1, maxResults), 10)
RequestedCount(n) == Min(Max(1, n), 10)

\* the body of the request to the search provider
SearchRequest(key, query, n) ==
  [api_key |-> key, query |-> query, max_results |-> RequestedCount(n),
   include_answer |-> TRUE, search_depth |-> "advanced"]

\* execute up to its first await: the two early returns, or the fetch
CallSearchWeb(query, n) ==
  /\ maxResults' = n
  /\ IF sessionUserId = ""
     THEN /\ vendorSearchResult' = [error |-> "User not authenticated"]
          /\ pc' = "vendorSettled"
          /\ UNCHANGED requests
     ELSE IF apiKey = ""
     THEN /\ vendorSearchResult' = [error |-> "Missing TAVILY_API_KEY"]
          /\ pc' = "vendorSettled"
          /\ UNCHANGED requests
     ELSE /\ requests' = Append(requests, SearchRequest(apiKey, query, n))
          /\ pc' = "fetch"
          /\ UNCHANGED vendorSearchResult

\* one mapped entry of the result list
SearchItem(r) ==
  [title |-> OrElse(r.title, r.url),
   snippet |-> OrElse(r.content, OrElse(r.snippet, "")),
   url |-> r.url, score |-> r.score]

\* results.slice(0, n): a negative n counts from the end
Slice(rs, n) ==
  IF n >= 0 THEN SubSeq(rs, 1, Min(Len(rs), n)) ELSE SubSeq(rs, 1, Max(Len(rs) + n, 0))

\* items.slice(1).map((i) => i.title).join('; ')
RECURSIVE JoinTitles(_)
JoinTitles(items) ==
  IF items = <<>> THEN ""
  ELSE IF Len(items) = 1 THEN items[1].title
  ELSE items[1].title \o "; " \o JoinTitles(Tail(items))

summarize(items) ==
  IF items = <<>> THEN "No results found."
  ELSE "Top result: " \o items[1].title \o ". More: " \o JoinTitles(Tail(items))

\* the success return of execute for the parsed body `data`
SearchWebSuccess(query, n, data) ==
  LET results == IF HasField(data, "results") THEN data.results ELSE <<>>
      sliced == Slice(results, n)
      items == [i \in 1..Len(sliced) |-> SearchItem(sliced[i])]
  IN [success |-> TRUE, query |-> query, answer |-> data.answer, results |-> items,
      response |-> OrElse(data.answer, summarize(items))]

\* the fetch resolves with a response whose ok flag is `ok`
FetchResolve(ok) ==
  /\ pc = "fetch"
  /\ IF ok
     THEN /\ pc' = "json"
          /\ UNCHANGED vendorSearchResult
     ELSE /\ vendorSearchResult' = [error |-> "Search provider error"]
          /\ pc' = "vendorSettled"
  /\ UNCHANGED <<envVars, ownVars, delivered, ocrFailed,
                 reqVars, prVars, catVars, ctx, result, events, consoleLog, db,
                 maxResults, requests>>

\* the fetch or res.json() rejects and execute has no catch block
SearchWebCatchRethrow(error) ==
  /\ pc \in {"fetch", "json"}
  /\ vendorSearchResult' = Thrown(error)
  /\ pc' = "vendorSettled"
  /\ UNCHANGED <<envVars, ownVars, delivered, ocrFailed, reqVars, prVars, catVars, ctx,
                 result, events,
                 consoleLog, db, maxResults, requests>>

\* the fetch or res.json() rejects: the catch block of execute
SearchWebCatch(error) ==
  /\ pc \in {"fetch", "json"}
  /\ consoleLog' = Append(consoleLog, [label |-> "Error searching web:", error |-> error])
  /\ vendorSearchResult' = [error |-> "Failed to search the web"]
  /\ pc' = "vendorSettled"
  /\ UNCHANGED <<envVars, ownVars, delivered, ocrFailed, reqVars, prVars, catVars, ctx,
                 result, events, db,
                 maxResults, requests>>

FetchReject ==
  /\ pc = "fetch"
  /\ SearchWebCatch(NetworkError)

JsonReject ==
  /\ pc = "json"
  /\ SearchWebCatch(JsonError)

\* res.json() resolves with `data`
JsonResolve(data) ==
  /\ pc = "json"
  /\ vendorSearchResult' = SearchWebSuccess(requests[Len(requests)].query, maxResults, data)
  /\ pc' = "vendorSettled"
  /\ UNCHANGED <<envVars, ownVars, delivered, ocrFailed,
                 reqVars, prVars, catVars, ctx, result, events, consoleLog, db,
                 maxResults, requests>>

(***************************************************************************)
(* categorizeTransaction.execute                                           *)
(***************************************************************************)
\* the fixed fallback (confidence 0.3, in tenths)
FallbackCategorization ==
  [category |-> "Other", confidence |-> 3, rationale |-> "Fallback categorization"]

\* one delta of type 'object' arrives from the categorization stream
CatDelta(object) ==
  /\ pc = "categorizeStream"
  /\ catDeltas < MaxCatDeltas
  /\ catDeltas' = catDeltas + 1
  /\ catResult' = object
  /\ UNCHANGED <<envVars, ownVars, delivered, ocrFailed,
                 reqVars, prVars, swVars, pc, ctx, result, events, consoleLog,
                 db, cat>>

\* the categorization stream ends: an empty stream is raised as an error
CatEndRaisesOnEmpty ==
  /\ pc = "categorizeStream"
  /\ cat' = IF catResult = Null THEN Thrown([message |-> "No categorization"])
            ELSE catResult
  /\ pc' = "categorizeSettled"
  /\ UNCHANGED <<envVars, ownVars, delivered, ocrFailed,
                 reqVars, prVars, swVars, ctx, result, events, consoleLog, db,
                 catResult, catDeltas>>

\* the categorization stream ends: the result, or the fallback when there is none
CatEnd ==
  /\ pc = "categorizeStream"
  /\ cat' = IF catResult = Null THEN FallbackCategorization ELSE catResult
  /\ pc' = "categorizeSettled"
  /\ UNCHANGED <<envVars, ownVars, delivered, ocrFailed,
                 reqVars, prVars, swVars, ctx, result, events, consoleLog, db,
                 catResult, catDeltas>>

\* the categorization stream raises: execute has no catch of its own
CatThrow ==
  /\ pc = "categorizeStream"
  /\ cat' = Thrown(ModelError)
  /\ pc' = "categorizeSettled"
  /\ UNCHANGED <<envVars, ownVars, delivered, ocrFailed,
                 reqVars, prVars, swVars, ctx, result, events, consoleLog, db,
                 catResult, catDeltas>>

(***************************************************************************)
(* runWorkflow.execute                                                     *)
(***************************************************************************)
\* the name test of execute, with the name check missing
IsKnownWorkflowAny(n) == TRUE

\* name === 'receipt_enrichment'
IsKnownWorkflow(n) == n = "receipt_enrichment"

\* params?.field, "" when params or the field is missing
ParamOf(p, field) == IF HasField(p, field) THEN p[field] ELSE ""

\* the three parts written before the extract step
WorkflowBegin(stream) ==
  LET s1 == Write(stream, "data-title", [title |-> "Receipt Data"])
      s2 == Write(s1, "data-kind", [kind |-> "receipt"])
  IN Write(s2, "data-clear", Null)

\* ctx.receipt?.merchantName
MerchantNameOf(receipt) == IF Truthy(receipt) THEN receipt.merchantName ELSE ""

\* the test guarding the search, with the test missing
ShouldSearchAlways(receipt) == TRUE

\* if (ctx.receipt?.merchantName)
ShouldSearch(receipt) == MerchantNameOf(receipt) # ""

SearchQuery(merchantName) == merchantName \o " official site address reviews"

\* Boolean(ctx.merchantInfo?.results?.length)
Found(merchantInfo) == HasField(merchantInfo, "results") /\ Len(merchantInfo.results) > 0

\* ctx.merchantInfo?.results?.[0] || null
FirstResult(merchantInfo) ==
  IF Found(merchantInfo) THEN merchantInfo.results[1] ELSE Null

\* { ...ctx.receipt, categorization, vendor }
Enriched(c) ==
  [categorization |-> c.categorization, vendor |-> FirstResult(c.merchantInfo)] @@ c.receipt

\* the request arrives: the name check, then execute runs up to the first await
\* of processReceipt.execute
Invoke(n, p) ==
  /\ pc = "idle"
  /\ name' = n
  /\ params' = p
  /\ IF ~IsKnownWorkflow(n)
     THEN /\ result' = [error |-> "Unknown workflow: " \o n]
          /\ pc' = "done"
          /\ UNCHANGED <<events, imageDescription, imageUrlFromInput, prompt>>
     ELSE /\ events' = ProcessReceiptBegin(
                         emitStepStart(WorkflowBegin(events), "extract", Undefined))
          /\ imageDescription' = OrElse(ParamOf(p, "imageDescription"), "Receipt image")
          /\ imageUrlFromInput' = OrElse(ParamOf(p, "imageUrl"), defaultImageUrl)
          /\ IF imageUrlFromInput' # ""
             THEN /\ pc' = "ocr"
                  /\ UNCHANGED prompt
             ELSE /\ pc' = "extractStream"
                  /\ prompt' = ExtractionPrompt(<<>>, imageDescription')
          /\ UNCHANGED result
  /\ UNCHANGED <<envVars, ownVars, delivered, ocrFailed,
                 swVars, catVars, ctx, consoleLog, db, ocrText, extractedData,
                 increments, savedReceipt, receiptResult>>

\* step 3 starts: categorize.execute runs up to its stream
StartCategorize(stream) ==
  /\ events' = emitStepStart(stream, "categorize", Undefined)
  /\ pc' = "categorizeStream"

\* step 3 started before the outcome of step 2 is emitted
FinishVendorSearchReordered(c, stream) ==
  /\ events' = emitStepSuccess(emitStepStart(stream, "categorize", Undefined),
                               "vendor_search", [found |-> Found(c.merchantInfo)])
  /\ pc' = "categorizeStream"

\* the try block of step 2 after the search (or its skipping), then step 3
FinishVendorSearch(c, stream) ==
  StartCategorize(emitStepSuccess(stream, "vendor_search", [found |-> Found(c.merchantInfo)]))

\* extract.execute has settled: the rest of step 1, then step 2 up to its await
ExtractSettled ==
  /\ pc = "extractSettled"
  /\ IF IsThrown(receiptResult)
     THEN /\ events' = emitStepError(events, "extract", ErrorString(receiptResult.thrown))
          /\ result' = receiptResult
          /\ pc' = "aborted"
          /\ UNCHANGED <<ctx, swVars>>
     ELSE LET c == IF HasField(receiptResult, "extractedData")
                      /\ Truthy(receiptResult.extractedData)
                   THEN [ctx EXCEPT !.receipt = receiptResult.extractedData]
                   ELSE ctx
              s1 == emitStepSuccess(events, "extract", [hasData |-> Truthy(c.receipt)])
              s2 == emitStepStart(s1, "vendor_search",
                                  [merchant |-> MerchantNameOf(c.receipt)])
          IN /\ ctx' = c
             /\ UNCHANGED result
             /\ IF ShouldSearch(c.receipt)
                THEN /\ events' = s2
                     /\ CallSearchWeb(SearchQuery(MerchantNameOf(c.receipt)), 5)
                ELSE /\ FinishVendorSearch(c, s2)
                     /\ UNCHANGED swVars
  /\ UNCHANGED <<envVars, ownVars, delivered, ocrFailed, reqVars, prVars, catVars, consoleLog,
                 db>>

\* search.execute has settled: the rest of step 2, then step 3 up to its await
\* the merge made only when a categorization is there
MergeAndFinishNeedsCategorization(c, stream) ==
  LET s1 == IF Truthy(c.receipt) /\ Truthy(c.categorization)
            THEN Write(stream, "data-receipt", Enriched(c)) ELSE stream
  IN /\ events' = Write(s1, "data-finish", Null)
     /\ result' = [success |-> TRUE, workflow |-> name, receipt |-> c.receipt,
                   categorization |-> c.categorization, vendor |-> c.merchantInfo]
     /\ ctx' = c
     /\ pc' = "done"

\* the merge, the finish part and the return value
MergeAndFinish(c, stream) ==
  LET s1 == IF Truthy(c.receipt) THEN Write(stream, "data-receipt", Enriched(c)) ELSE stream
  IN /\ events' = Write(s1, "data-finish", Null)
     /\ result' = [success |-> TRUE, workflow |-> name, receipt |-> c.receipt,
                   categorization |-> c.categorization, vendor |-> c.merchantInfo]
     /\ ctx' = c
     /\ pc' = "done"

\* an orchestrator that returns what it has after the lookup, without categorizing
VendorSettledReturning ==
  /\ pc = "vendorSettled"
  /\ LET c == IF IsThrown(vendorSearchResult) THEN ctx
              ELSE [ctx EXCEPT !.merchantInfo = vendorSearchResult]
     IN MergeAndFinish(c, emitStepSuccess(events, "vendor_search",
                                          [found |-> Found(c.merchantInfo)]))
  /\ UNCHANGED <<envVars, ownVars, delivered, ocrFailed,
                 reqVars, prVars, swVars, catVars, consoleLog, db>>

VendorSettled ==
  /\ pc = "vendorSettled"
  /\ IF IsThrown(vendorSearchResult)
     THEN /\ StartCategorize(
               emitStepError(events, "vendor_search", ErrorString(vendorSearchResult.thrown)))
          /\ UNCHANGED ctx
     ELSE LET c == [ctx EXCEPT !.merchantInfo = vendorSearchResult]
          IN /\ ctx' = c
             /\ FinishVendorSearch(c, events)
  /\ UNCHANGED <<envVars, ownVars, delivered, ocrFailed,
                 reqVars, prVars, swVars, catVars, result, consoleLog, db>>

\* the catch block of step 3, rethrowing as step 1 does
CategorizeCatchRethrow ==
  /\ events' = emitStepError(events, "categorize", ErrorString(cat.thrown))
  /\ result' = cat
  /\ pc' = "aborted"
  /\ UNCHANGED ctx

\* the catch block of step 3, then the merge
CategorizeCatch ==
  MergeAndFinish(ctx, emitStepError(events, "categorize", ErrorString(cat.thrown)))

\* categorize.execute has settled: the rest of step 3, the merge and the return
CategorizeSettled ==
  /\ pc = "categorizeSettled"
  /\ IF IsThrown(cat)
     THEN CategorizeCatch
     ELSE LET c == [ctx EXCEPT !.categorization = cat]
          IN MergeAndFinish(c, emitStepSuccess(events, "categorize", c.categorization))
  /\ UNCHANGED <<envVars, ownVars, delivered, ocrFailed, reqVars, prVars, swVars, catVars,
                 consoleLog, db>>

Params ==
  {Undefined} \cup [imageDescription : ImageDescriptions, imageUrl : ImageUrls]

Next ==
  \/ \E n \in WorkflowNames, p \in Params : Invoke(n, p)
  \/ \E t \in Transcripts : OcrEnd(t)
  \/ OcrThrow
  \/ \E o \in ReceiptObjects : ExtractDelta(o)
  \/ ExtractEnd
  \/ ExtractThrow
  \/ SaveReceiptThrow
  \/ SaveReceiptOk
  \/ SaveReceiptItemsOk
  \/ SaveReceiptItemsThrow
  \/ ExtractSettled
  \/ \E ok \in BOOLEAN : FetchResolve(ok)
  \/ FetchReject
  \/ \E d \in ProviderData : JsonResolve(d)
  \/ JsonReject
  \/ VendorSettled
  \/ \E o \in CatObjects : CatDelta(o)
  \/ CatEnd
  \/ CatThrow
  \/ CategorizeSettled

Spec == Init /\ [][Next]_vars

(***************************************************************************)
(* searchWeb.execute called on its own, once.                              *)
(***************************************************************************)
\* the inputs: a query without a count, and with counts below, in and above 1..10
SearchCounts == {-3, 0, 1, 2, 5, 10, 11, 50}
SearchInputs ==
  {[query |-> "Acme official site address reviews"]}
  \cup {[query |-> "Acme official site address reviews", maxResults |-> n] : n \in SearchCounts}

\* execute: async ({ query, maxResults = 5 })
MaxResultsOf(input) == IF HasField(input, "maxResults") THEN input.maxResults ELSE 5

SearchInit ==
  /\ sessionUserId \in UserIds
  /\ apiKey \in ApiKeys
  /\ defaultImageUrl = ""
  /\ today = RunDate
  /\ normInput = Undefined
  /\ dateOut = Pending
  /\ timeOut = Pending
  /\ searchInput = Undefined
  /\ storeLog = <<>>
  /\ storeIds = 0
  /\ NoParts
  /\ NoRun

\* execute is called with `input` and runs up to its first await
SearchDirect(input) ==
  /\ pc = "idle"
  /\ searchInput = Undefined
  /\ searchInput' = input
  /\ CallSearchWeb(input.query, MaxResultsOf(input))
  /\ UNCHANGED <<envVars, reqVars, prVars, catVars, normVars, storeVars, subVars, runs,
                 delivered,
                 ocrFailed, ctx, result, events, consoleLog, db>>

SearchNext ==
  \/ \E input \in SearchInputs : SearchDirect(input)
  \/ \E ok \in BOOLEAN : FetchResolve(ok)
  \/ FetchReject
  \/ \E d \in ProviderData : JsonResolve(d)
  \/ JsonReject

SearchSpec == SearchInit /\ [][SearchNext]_vars

(***************************************************************************)
(* saveReceipt, saveReceiptItems and deleteReceipt called on their own, on *)
(* the Receipt and ReceiptItem tables.                                     *)
(***************************************************************************)
\* calls made at most, and items in one call at most
MaxStoreCalls == 4
MaxCallItems == 1

\* line items as a caller may pass them: complete, without quantity, without
\* totalPrice
CallItems ==
  {[name |-> "Latte", quantity |-> 2, totalPrice |-> 5],
   [name |-> "Bagel", totalPrice |-> 3],
   [name |-> "Tea", quantity |-> 1]}
CallItemLists == SeqsUpTo(CallItems, MaxCallItems) \ {<<>>}
\* the record whose values saveReceiptToSupabase passes to saveReceipt
CallReceipt ==
  [merchantName |-> "Acme", items |-> <<>>, imageUrl |-> "",
   receiptDate |-> CanonicalDate, receiptTime |-> CanonicalTime]

ReceiptIds == {db.receipt[i].id : i \in 1..Len(db.receipt)}

StoreInit ==
  /\ sessionUserId = "u1"
  /\ apiKey = ""
  /\ defaultImageUrl = ""
  /\ today = RunDate
  /\ normInput = Undefined
  /\ dateOut = Pending
  /\ timeOut = Pending
  /\ searchInput = Undefined
  /\ storeLog = <<>>
  /\ storeIds = 0
  /\ NoParts
  /\ NoRun

\* one call is logged with what it returned or raised
Logged(op, receiptId, items, outcome) ==
  /\ Len(storeLog) < MaxStoreCalls
  /\ storeLog' = Append(storeLog, [op |-> op, receiptId |-> receiptId, items |-> items,
                                    outcome |-> outcome])

\* saveReceipt inserts a row with a generated id and returns it
StoreSaveReceipt ==
  LET row == ReceiptRow(storeIds + 1, CallReceipt, sessionUserId)
  IN /\ Logged("saveReceipt", row.id, <<>>, row)
     /\ storeIds' = storeIds + 1
     /\ db' = [db EXCEPT !.receipt = Append(@, row)]
     /\ UNCHANGED <<envVars, reqVars, prVars, swVars, catVars, normVars, searchInput,
                    subVars, runs, delivered, ocrFailed, pc, ctx, result, events, consoleLog>>

\* saveReceiptItems for a receipt id: the insert fails for an id that is not in
\* the Receipt table (the foreign key) and for an item without totalPrice
StoreSaveReceiptItems(receiptId, items) ==
  /\ IF receiptId \in ReceiptIds /\ \A i \in 1..Len(items) : ~ItemRaises(items[i])
     THEN LET rows == [i \in 1..Len(items) |-> ItemRow(receiptId, items[i])]
          IN /\ Logged("saveReceiptItems", receiptId, items, [rows |-> rows])
             /\ db' = [db EXCEPT !.receiptItem = @ \o rows]
     ELSE /\ Logged("saveReceiptItems", receiptId, items,
                    Thrown(ChatSDKError("Failed to save receipt items")))
          /\ UNCHANGED db
  /\ UNCHANGED <<envVars, reqVars, prVars, swVars, catVars, normVars, searchInput,
                 subVars, runs, storeIds, delivered, ocrFailed, pc, ctx, result, events, consoleLog>>

\* a delete that leaves the items of the receipt in place
DeleteFromReceiptOnly(tables, receiptId) ==
  [tables EXCEPT !.receipt = SelectSeq(@, LAMBDA r : r.id # receiptId)]

\* delete from Receipt where id = receiptId; the ReceiptItem rows that reference
\* the row go with it (ON DELETE CASCADE)
DeleteFromReceipt(tables, receiptId) ==
  [receipt |-> SelectSeq(tables.receipt, LAMBDA r : r.id # receiptId),
   receiptItem |-> SelectSeq(tables.receiptItem, LAMBDA r : r.receiptId # receiptId)]

\* deleteReceipt returns the deleted row, undefined when there was none
StoreDeleteReceipt(receiptId) ==
  /\ Logged("deleteReceipt", receiptId, <<>>,
            IF receiptId \in ReceiptIds
            THEN CHOOSE r \in {db.receipt[i] : i \in 1..Len(db.receipt)} : r.id = receiptId
            ELSE Undefined)
  /\ db' = DeleteFromReceipt(db, receiptId)
  /\ UNCHANGED <<envVars, reqVars, prVars, swVars, catVars, normVars, searchInput,
                 subVars, runs, storeIds, delivered, ocrFailed, pc, ctx, result, events, consoleLog>>

StoreNext ==
  \/ StoreSaveReceipt
  \/ \E id \in 1..storeIds, items \in CallItemLists : StoreSaveReceiptItems(id, items)
  \/ \E id \in 1..storeIds : StoreDeleteReceipt(id)

StoreSpec == StoreInit /\ [][StoreNext]_vars

(***************************************************************************)
(* A run in which every pending adapter call eventually returns or throws: *)
(* each step of Next after the invocation is the response of the adapter   *)
(* the run is waiting for, or the code that follows it.                    *)
(***************************************************************************)
\* the image comes with the request or not at all
LiveInit ==
  /\ sessionUserId \in UserIds
  /\ apiKey \in ApiKeys
  /\ defaultImageUrl = ""
  /\ today = RunDate
  /\ normInput = Undefined
  /\ dateOut = Pending
  /\ timeOut = Pending
  /\ searchInput = Undefined
  /\ storeLog = <<>>
  /\ storeIds = 0
  /\ NoParts
  /\ NoRun

LiveSpec == LiveInit /\ [][Next]_vars /\ WF_vars(Next)

(***************************************************************************)
(* Two calls of runWorkflow.execute in flight at once, interleaved at      *)
(* their awaits.  Each call has its own locals; the calls share the        *)
(* session and the dataStream (events).  An adapter is one await here: it  *)
(* answers the call that made it.                                          *)
(***************************************************************************)
\* objects the extraction stream delivers to one call, at most
MaxRunDeltas == 1

\* what the adapters answer to call r: each call's receipt names its own merchant
RunMerchant(r) == IF r = 1 THEN "Acme" ELSE "Bolt"
RunObject(r) ==
  [merchantName |-> RunMerchant(r), items |-> <<>>, imageUrl |-> "",
   receiptDate |-> CanonicalDate, receiptTime |-> CanonicalTime]
RunSearchResults(r) ==
  {[query |-> SearchQuery(RunMerchant(r)), answer |-> "",
    results |-> <<[title |-> RunMerchant(r), url |-> "https://" \o RunMerchant(r)]>>],
   [error |-> "Failed to search the web"]}
RunCats(r) ==
  {[category |-> IF r = 1 THEN "Groceries" ELSE "Dining", confidence |-> 9,
    rationale |-> RunMerchant(r)],
   Thrown(ModelError)}

\* an accumulator that every call writes to
SetCtxShared(rs, r, field, value) ==
  [q \in Runs |-> [rs[q] EXCEPT !.ctx = [@ EXCEPT ![field] = value]]]

\* ctx.<field> = value in call r, ctx being a local of the call
SetCtx(rs, r, field, value) == [rs EXCEPT ![r].ctx = [@ EXCEPT ![field] = value]]

ConcInit ==
  /\ sessionUserId = "u1"
  /\ apiKey = "tvly-key"
  /\ defaultImageUrl = ""
  /\ today = RunDate
  /\ normInput = Undefined
  /\ dateOut = Pending
  /\ timeOut = Pending
  /\ searchInput = Undefined
  /\ storeLog = <<>>
  /\ storeIds = 0
  /\ NoParts
  /\ NoRun

\* what a step of the two calls leaves alone
ConcUnchanged ==
  UNCHANGED <<envVars, reqVars, prVars, swVars, catVars, delivered, ocrFailed, pc, ctx, result,
              consoleLog, db, normVars, searchInput, storeVars, subVars>>

\* call r starts and runs up to the await of the extraction
ConcInvoke(r) ==
  /\ runs[r].pc = "idle"
  /\ events' = ProcessReceiptBegin(emitStepStart(WorkflowBegin(events), "extract", Undefined))
  /\ runs' = [runs EXCEPT ![r].pc = "extract"]
  /\ ConcUnchanged

\* the extraction stream of call r delivers an object
ConcExtractDelta(r) ==
  /\ runs[r].pc = "extract"
  /\ runs[r].deltas < MaxRunDeltas
  /\ runs' = [runs EXCEPT ![r].deltas = @ + 1, ![r].extractedData = RunObject(r)]
  /\ events' = Write(events, "data-receipt", RunObject(r))
  /\ ConcUnchanged

\* the vendor search step of call r after the extraction: searched, or skipped
ConcVendorStep(rs, r, stream) ==
  LET c == rs[r].ctx
      s1 == emitStepSuccess(stream, "extract", [hasData |-> Truthy(c.receipt)])
      s2 == emitStepStart(s1, "vendor_search", [merchant |-> MerchantNameOf(c.receipt)])
  IN IF ShouldSearch(c.receipt)
     THEN /\ events' = s2
          /\ runs' = [rs EXCEPT ![r].pc = "vendor_search"]
     ELSE /\ events' = emitStepStart(
                         emitStepSuccess(s2, "vendor_search",
                                         [found |-> Found(c.merchantInfo)]),
                         "categorize", Undefined)
          /\ runs' = [rs EXCEPT ![r].pc = "categorize"]

\* processReceipt answers call r with what its stream delivered
ConcExtractReturns(r) ==
  /\ runs[r].pc = "extract"
  /\ LET res == ProcessReceiptSuccess(runs[r].extractedData)
         r1 == [runs EXCEPT ![r].receiptResult = res]
         r2 == IF Truthy(res.extractedData)
               THEN SetCtx(r1, r, "receipt", res.extractedData) ELSE r1
     IN ConcVendorStep(r2, r, Write(events, "data-finish", Null))
  /\ ConcUnchanged

\* searchWeb answers call r
ConcVendorReturns(r, res) ==
  /\ runs[r].pc = "vendor_search"
  /\ LET r1 == [runs EXCEPT ![r].vendorSearchResult = res, ![r].pc = "categorize"]
         r2 == SetCtx(r1, r, "merchantInfo", res)
     IN /\ runs' = r2
        /\ events' = emitStepStart(
                        emitStepSuccess(events, "vendor_search",
                                        [found |-> Found(r2[r].ctx.merchantInfo)]),
                        "categorize", Undefined)
  /\ ConcUnchanged

\* the categorizer answers call r, or throws; the call merges, finishes and returns
ConcCategorizeReturns(r, res) ==
  /\ runs[r].pc = "categorize"
  /\ LET r1 == [runs EXCEPT ![r].cat = res]
         r2 == IF IsThrown(res) THEN r1 ELSE SetCtx(r1, r, "categorization", res)
         c == r2[r].ctx
         s1 == IF IsThrown(res)
               THEN emitStepError(events, "categorize", ErrorString(res.thrown))
               ELSE emitStepSuccess(events, "categorize", c.categorization)
         s2 == IF Truthy(c.receipt) THEN Write(s1, "data-receipt", Enriched(c)) ELSE s1
     IN /\ events' = Write(s2, "data-finish", Null)
        /\ runs' = [r2 EXCEPT
                      ![r].enriched = IF Truthy(c.receipt) THEN Enriched(c) ELSE Undefined,
                      ![r].result = [success |-> TRUE, workflow |-> "receipt_enrichment",
                                     receipt |-> c.receipt,
                                     categorization |-> c.categorization,
                                     vendor |-> c.merchantInfo],
                      ![r].pc = "done"]
  /\ ConcUnchanged

ConcNext ==
  \E r \in Runs :
    \/ ConcInvoke(r)
    \/ ConcExtractDelta(r)
    \/ ConcExtractReturns(r)
    \/ \E res \in RunSearchResults(r) : ConcVendorReturns(r, res)
    \/ \E res \in RunCats(r) : ConcCategorizeReturns(r, res)

ConcSpec == ConcInit /\ [][ConcNext]_vars

(***************************************************************************)
(* receiptArtifact.onStreamPart called with the parts of a stream.         *)
(***************************************************************************)
\* parts one stream delivers at most
MaxParts == 3

\* the parts: two records with different fields, and parts of other types
StreamParts ==
  {[type |-> "data-receipt", data |-> [merchantName |-> "Acme", total |-> 5]],
   [type |-> "data-receipt", data |-> [merchantName |-> "Bolt", vendor |-> Null]],
   [type |-> "data-clear", data |-> Null],
   [type |-> "data-step-start", data |-> [step |-> "extract", info |-> Undefined]],
   [type |-> "data-finish", data |-> Null]}

\* metadata?.data
MetadataData(m) == IF m = Undefined THEN Undefined ELSE m.data

\* a handler that keeps the fields of the record shown before
SetMetadataMerging(prev, part) ==
  [data |-> IF MetadataData(prev) = Undefined THEN part.data ELSE part.data @@ prev.data]

\* setMetadata((prev) => ({ ...prev, data: streamPart.data }))
SetMetadata(prev, part) ==
  IF prev = Undefined THEN [data |-> part.data] ELSE [prev EXCEPT !.data = part.data]

\* setArtifact((draft) => ({ ...draft, isVisible: true, status: 'streaming' }))
SetArtifact(draft) == [draft EXCEPT !.isVisible = TRUE, !.status = "streaming"]

SubInit ==
  /\ sessionUserId = "u1"
  /\ apiKey = ""
  /\ defaultImageUrl = ""
  /\ today = RunDate
  /\ normInput = Undefined
  /\ dateOut = Pending
  /\ timeOut = Pending
  /\ searchInput = Undefined
  /\ storeLog = <<>>
  /\ storeIds = 0
  /\ NoParts
  /\ NoRun

\* onStreamPart is called with the next part of the stream
OnStreamPart(part) ==
  /\ Len(streamParts) < MaxParts
  /\ streamParts' = Append(streamParts, part)
  /\ IF part.type = "data-receipt"
     THEN /\ metadata' = SetMetadata(metadata, part)
          /\ artifact' = SetArtifact(artifact)
     ELSE UNCHANGED <<metadata, artifact>>
  /\ UNCHANGED <<workflowVars, normVars, searchInput, storeVars, runs>>

SubNext == \E part \in StreamParts : OnStreamPart(part)

SubSpec == SubInit /\ [][SubNext]_vars

(***************************************************************************)
(* normalizeDate and normalizeTime called on their own, each once, on one  *)
(* input.                                                                  *)
(***************************************************************************)
\* whitespace characters on either side of an input, at most
MaxPad == 1
Pads == SeqsUpTo({" "}, MaxPad)

MonthTexts == {<<"0">>, <<"3">>, <<"0", "0">>, <<"1", "2">>, <<"1", "3">>, <<"9", "9">>}
DayTexts == {<<"0">>, <<"7">>, <<"0", "0">>, <<"3", "1">>, <<"4", "5">>}
YearTexts == {<<"2", "0", "2", "4">>, <<"0", "0", "0", "0">>, <<"2", "0", "2">>}
HourTexts ==
  {<<"9">>, <<"0", "9">>, <<"2", "3">>, <<"2", "4">>, <<"9", "9">>, <<"1", "2", "3">>}
MinuteTexts == {<<"5">>, <<"0", "5">>, <<"5", "9">>, <<"6", "0">>, <<"9", "9">>}
SecondTexts == {<<"3">>, <<"3", "0">>}

\* dates written month/day/year and year-month-day, well formed or not
DateTexts ==
  {m \o <<"/">> \o d \o <<"/">> \o y : m \in MonthTexts, d \in DayTexts, y \in YearTexts}
  \cup
  {y \o <<"-">> \o m \o <<"-">> \o d : m \in MonthTexts, d \in DayTexts, y \in YearTexts}
\* times written hour:minute and hour:minute:second, well formed or not
TimeTexts ==
  {h \o <<":">> \o m : h \in HourTexts, m \in MinuteTexts}
  \cup
  {h \o <<":">> \o m \o <<":">> \o sec :
     h \in HourTexts, m \in MinuteTexts, sec \in SecondTexts}
OtherTexts == {<<>>, <<"n", "/", "a">>}

\* the inputs: strings with and without surrounding whitespace, and values
\* that are not strings
NormInputs ==
  {Str(l \o t \o r) : l \in Pads, r \in Pads,
                       t \in DateTexts \cup TimeTexts \cup OtherTexts}
  \cup {Undefined, Null, [number |-> 20240102]}

NormInit ==
  /\ sessionUserId = ""
  /\ apiKey = ""
  /\ defaultImageUrl = ""
  /\ today \in Todays
  /\ normInput \in NormInputs
  /\ dateOut = Pending
  /\ timeOut = Pending
  /\ searchInput = Undefined
  /\ storeLog = <<>>
  /\ storeIds = 0
  /\ NoParts
  /\ NoRun

ApplyNormalizeDate ==
  /\ dateOut = Pending
  /\ dateOut' = normalizeDate(normInput)
  /\ UNCHANGED <<workflowVars, searchInput, storeVars, subVars, runs, normInput, timeOut>>

ApplyNormalizeTime ==
  /\ timeOut = Pending
  /\ timeOut' = normalizeTime(normInput)
  /\ UNCHANGED <<workflowVars, searchInput, storeVars, subVars, runs, normInput, dateOut>>

NormNext ==
  \/ ApplyNormalizeDate
  \/ ApplyNormalizeTime

NormSpec == NormInit /\ [][NormNext]_vars

(***************************************************************************)
(* Reading the progress stream.                                            *)
(***************************************************************************)
StepTypes == {"data-step-start", "data-step-success", "data-step-error"}
IsStepEvent(e) == e.type \in StepTypes
HasStepEvent(type, step) ==
  \E i \in 1..Len(events) : events[i].type = type /\ events[i].data.step = step
CountType(type) == Cardinality({i \in 1..Len(events) : events[i].type = type})
\* the step events in order
StepTrace == SelectSeq(events, IsStepEvent)
\* the trace is, for each name in turn, its start event followed by its outcome event
StartThenOutcome(trace, names) ==
  /\ Len(trace) = 2 * Len(names)
  /\ \A k \in 1..Len(names) :
       /\ trace[2 * k - 1].type = "data-step-start"
       /\ trace[2 * k - 1].data.step = names[k]
       /\ trace[2 * k].type \in {"data-step-success", "data-step-error"}
       /\ trace[2 * k].data.step = names[k]
\* the merged record written at the merge carries the vendor annotation
IsMergedRecord(e) == e.type = "data-receipt" /\ HasField(e.data, "vendor")

Returned == pc = "done" /\ HasField(result, "success")
\* execute of processReceipt took its catch block
ExtractionFailed == HasField(receiptResult, "error")
\* the structured-extraction stream raised
StructuredExtractionFailed ==
  \E i \in 1..Len(consoleLog) :
    consoleLog[i].label = "Error processing receipt:" /\ consoleLog[i].error = StreamError
\* saveReceipt or saveReceiptItems raised
SaveFailed ==
  \E i \in 1..Len(consoleLog) : consoleLog[i].label = "Error saving receipt to database:"
AfterExtract == pc \notin {"idle", "ocr", "extractStream", "saveReceipt", "saveReceiptItems",
                           "extractSettled"}
AfterVendorSearch == pc \in {"categorizeStream", "categorizeSettled", "done", "aborted"}

(***************************************************************************)
(* C1.  If the extraction step fails, the run emits step-error for         *)
(* 'extract' and raises, no vendor_search or categorize event and no       *)
(* merged record follows, and the caller receives no result with a         *)
(* receipt.                                                                *)
(***************************************************************************)
C1_FatalExtractionAborts ==
  (ExtractionFailed /\ AfterExtract /\ name = "receipt_enrichment") =>
    /\ HasStepEvent("data-step-error", "extract")
    /\ pc = "aborted"
    /\ \A i \in 1..Len(events) :
         /\ IsStepEvent(events[i]) => events[i].data.step = "extract"
         /\ ~IsMergedRecord(events[i])
    /\ ~(HasField(result, "receipt") /\ Truthy(result.receipt))

(***************************************************************************)
(* C2.  A failure of the structured-extraction call inside processReceipt  *)
(* reaches the fatal path: step-error for 'extract' is emitted and the run *)
(* aborts; step-success for 'extract' is not emitted and vendor_search     *)
(* does not start.                                                         *)
(***************************************************************************)
C2_ExtractionFailurePropagates ==
  (StructuredExtractionFailed /\ AfterExtract) =>
    /\ HasStepEvent("data-step-error", "extract")
    /\ ~HasStepEvent("data-step-success", "extract")
    /\ ~HasStepEvent("data-step-start", "vendor_search")
    /\ IsThrown(result)

C4_FinishOnceAndLast ==
  (pc = "done" /\ name = "receipt_enrichment") =>
    /\ CountType("data-finish") = 1
    /\ events[Len(events)].type = "data-finish"

(***************************************************************************)
(* C5.  As claimed: without a merchant name in the extracted record (or    *)
(* without a record) no step-start for 'vendor_search' is emitted and the  *)
(* vendor annotation stays absent.                                         *)
(***************************************************************************)
NoMerchantName ==
  /\ name = "receipt_enrichment"
  /\ AfterExtract
  /\ MerchantNameOf(ctx.receipt) = ""

C6_ErrorShapeIsStepError ==
  (HasField(vendorSearchResult, "error") /\ AfterVendorSearch) =>
    /\ \E i \in 1..Len(events) :
         events[i] = [type |-> "data-step-error",
                      data |-> [step |-> "vendor_search",
                                error |-> vendorSearchResult.error]]
    /\ ~HasStepEvent("data-step-success", "vendor_search")

(***************************************************************************)
(* C7.  In the returned value categorization is set only if categorize     *)
(* succeeded and vendor only if vendor_search succeeded: a step that was   *)
(* skipped, returned {error} or raised leaves its field undefined.         *)
(***************************************************************************)
VendorSearchSucceeded == HasField(vendorSearchResult, "success")
CategorizeSucceeded == cat # Pending /\ ~IsThrown(cat)

C7_FieldsOnlyOnSuccess ==
  Returned =>
    /\ result.categorization # Undefined => CategorizeSucceeded
    /\ result.vendor # Undefined => VendorSearchSucceeded

(***************************************************************************)
(* C8.  If the extraction stream delivered a record and ended, the run     *)
(* returns success with receipt set to that record, also when saveReceipt  *)
(* or saveReceiptItems failed.                                             *)
(***************************************************************************)
C8_SaveFailureKeepsReceipt ==
  (pc = "done" /\ name = "receipt_enrichment" /\ extractedData # Null
     /\ ~StructuredExtractionFailed) =>
    /\ HasField(result, "success")
    /\ result.success = TRUE
    /\ result.receipt = extractedData

(***************************************************************************)
(* C9.  A request whose name is not 'receipt_enrichment' returns           *)
(* {error: "Unknown workflow: <name>"} at once and writes no part to the   *)
(* stream.                                                                 *)
(***************************************************************************)
C9_UnknownWorkflowRejected ==
  (pc # "idle" /\ name # "receipt_enrichment") =>
    /\ pc = "done"
    /\ result = [error |-> "Unknown workflow: " \o name]
    /\ events = <<>>

\* the request named "foo" has been answered
C9_Witness ==
  /\ pc = "done"
  /\ name = "foo"
  /\ result = [error |-> "Unknown workflow: foo"]

(***************************************************************************)
(* C10.  A failed vendor_search or categorize step (raised, or returned as *)
(* {error}) never aborts the run: after a failed vendor_search the         *)
(* categorize step has started, after a failed categorize the run has      *)
(* written data-finish last and returned success: true.                    *)
(***************************************************************************)
VendorSearchFailed ==
  \/ HasField(ctx.merchantInfo, "error")
  \/ HasStepEvent("data-step-error", "vendor_search")
CategorizeFailed == HasStepEvent("data-step-error", "categorize")

C10_BestEffortNeverAborts ==
  /\ VendorSearchFailed =>
       /\ pc \in {"categorizeStream", "categorizeSettled", "done"}
       /\ HasStepEvent("data-step-start", "categorize")
  /\ (CategorizeFailed \/ (VendorSearchFailed /\ pc \notin {"categorizeStream",
                                                           "categorizeSettled"})) =>
       /\ pc = "done"
       /\ result.success = TRUE
       /\ events[Len(events)].type = "data-finish"

\* both best-effort steps failed and the run returned
C10_Witness ==
  /\ pc = "done"
  /\ HasField(ctx.merchantInfo, "error")
  /\ CategorizeFailed

(***************************************************************************)
(* C11.  Step events follow the order of execution: the outcome event of a *)
(* step precedes the start event of the next one, and at no time have two  *)
(* steps started without an outcome; while the call of a step is awaited,  *)
(* the last step event is the start of that step.                          *)
(***************************************************************************)
Steps == <<"extract", "vendor_search", "categorize">>
StepNames == {Steps[k] : k \in 1..Len(Steps)}
CountStep(type, step) ==
  Cardinality({i \in 1..Len(events) :
                 events[i].type = type /\ events[i].data.step = step})
Starts(step) == CountStep("data-step-start", step)
Outcomes(step) == CountStep("data-step-success", step) + CountStep("data-step-error", step)
ExtractInFlight == pc \in {"ocr", "extractStream", "saveReceipt", "saveReceiptItems"}
VendorSearchInFlight == pc \in {"fetch", "json"}
CategorizeInFlight == pc = "categorizeStream"
LastStepEventIsStart(step) ==
  /\ StepTrace # <<>>
  /\ StepTrace[Len(StepTrace)].type = "data-step-start"
  /\ StepTrace[Len(StepTrace)].data.step = step

C11_StepsInSequence ==
  /\ \A k \in 1..Len(StepTrace) :
       IF k % 2 = 1
       THEN /\ StepTrace[k].type = "data-step-start"
            /\ StepTrace[k].data.step = Steps[(k + 1) \div 2]
       ELSE /\ StepTrace[k].type \in {"data-step-success", "data-step-error"}
            /\ StepTrace[k].data.step = StepTrace[k - 1].data.step
  /\ Cardinality({s \in StepNames : Starts(s) > Outcomes(s)}) <= 1
  /\ ExtractInFlight => LastStepEventIsStart("extract")
  /\ VendorSearchInFlight => LastStepEventIsStart("vendor_search")
  /\ CategorizeInFlight => LastStepEventIsStart("categorize")

\* the categorizer is awaited after a search that went to the provider
C11_Witness ==
  /\ CategorizeInFlight
  /\ requests # <<>>
  /\ HasField(ctx.merchantInfo, "results")

(***************************************************************************)
(* C12.  Whenever the extract step left a record in ctx.receipt, the merge *)
(* is made whatever the outcomes of vendor_search and categorize: exactly  *)
(* one data-receipt part carrying the record with categorization and       *)
(* vendor is written, directly after the outcome event of categorize and   *)
(* directly before the last data-finish.                                   *)
(***************************************************************************)
MergedIndices == {i \in 1..Len(events) : IsMergedRecord(events[i])}

CatStreamEndedEmpty == catResult = Null /\ cat # Pending /\ cat # Thrown(ModelError)
FixedFallback ==
  [category |-> "Other", confidence |-> 3, rationale |-> "Fallback categorization"]

C14_FallbackIsSuccess ==
  CatStreamEndedEmpty =>
    /\ cat = FixedFallback
    /\ pc = "done" =>
         /\ ctx.categorization = FixedFallback
         /\ result.categorization = FixedFallback
         /\ \E i \in 1..Len(events) :
              events[i] = [type |-> "data-step-success",
                           data |-> [step |-> "categorize", result |-> FixedFallback]]
         /\ ~HasStepEvent("data-step-error", "categorize")
         /\ \A i \in MergedIndices : events[i].data.categorization = FixedFallback

\* a run with a record returned after an empty categorization stream
C14_Witness ==
  /\ Returned
  /\ catDeltas = 0
  /\ cat # Pending
  /\ ~IsThrown(cat)
  /\ Truthy(result.receipt)

(***************************************************************************)
(* C15.  saveReceipt and saveReceiptItems are invoked only after the       *)
(* vendor_search and categorize steps have their outcome.                  *)
(***************************************************************************)
PersistenceInvoked == pc \in {"saveReceipt", "saveReceiptItems"} \/ db.receipt # <<>>

C15_SaveAfterEnrichment ==
  PersistenceInvoked =>
    /\ Outcomes("vendor_search") = 1
    /\ Outcomes("categorize") = 1

(***************************************************************************)
(* C19.  The step that ends the transcription without a transcript (the    *)
(* vision stream raising, or an empty transcript) writes no part and logs  *)
(* nothing, settles nothing, and goes on to the structured extraction with *)
(* the prompt made of the description alone.                               *)
(***************************************************************************)
C19_OcrFailureSilent ==
  [][(pc = "ocr" /\ pc' # "ocr" /\ (ocrText' = <<>> \/ pc' # "extractStream")) =>
       /\ pc' = "extractStream"
       /\ events' = events
       /\ consoleLog' = consoleLog
       /\ receiptResult' = Pending
       /\ prompt' = [description |-> imageDescription]]_vars

\* a run with an image returned a record extracted from the description
C19_Witness ==
  /\ Returned
  /\ imageUrlFromInput # ""
  /\ ocrText = <<>>
  /\ prompt = [description |-> imageDescription]
  /\ Truthy(result.receipt)

(***************************************************************************)
(* C20.  The data-receipt parts the adapter writes are the increments the  *)
(* extraction stream delivered, one part per increment and in arrival      *)
(* order (each with the image URL attached), and the record the adapter    *)
(* keeps and returns is the last increment, not a merge of several.        *)
(***************************************************************************)
IsAdapterRecord(e) == e.type = "data-receipt" /\ ~IsMergedRecord(e)
SameButImageUrl(record, object) == [record EXCEPT !.imageUrl = object.imageUrl] = object

C20_IncrementsReemittedInOrder ==
  LET emitted == SelectSeq(events, IsAdapterRecord)
  IN /\ Len(emitted) = Len(delivered)
     /\ \A i \in 1..Len(delivered) : SameButImageUrl(emitted[i].data, delivered[i])
     /\ IF delivered = <<>>
        THEN extractedData = Null
        ELSE /\ extractedData = emitted[Len(emitted)].data
             /\ SameButImageUrl(extractedData, delivered[Len(delivered)])
     /\ HasField(receiptResult, "extractedData") => receiptResult.extractedData = extractedData

\* two different increments were delivered and the adapter returned its record
C20_Witness ==
  /\ Len(delivered) >= 2
  /\ delivered[1] # delivered[2]
  /\ delivered[1].merchantName # ""
  /\ delivered[Len(delivered)].merchantName = ""
  /\ HasField(receiptResult, "extractedData")

(***************************************************************************)
(* Reading dates and times as the specification words them.                *)
(***************************************************************************)
\* the positions of a separator in a text, and the fields between them
Positions(t, sep) == {i \in 1..Len(t) : t[i] = sep}
RECURSIVE Fields(_, _)
Fields(t, sep) ==
  IF Positions(t, sep) = {} THEN <<t>>
  ELSE LET i == CHOOSE i \in Positions(t, sep) : \A j \in Positions(t, sep) : i <= j
       IN <<SubSeq(t, 1, i - 1)>> \o Fields(SubSeq(t, i + 1, Len(t)), sep)
IsNumeral(t, lens) == Len(t) \in lens /\ \A i \in 1..Len(t) : IsDigit(t[i])
\* the number a numeral of one or two digits denotes
Number(t) ==
  IF Len(t) = 1 THEN DigitValue(t[1]) ELSE 10 * DigitValue(t[1]) + DigitValue(t[2])
Into(n, lo, hi) == IF n < lo THEN lo ELSE IF n > hi THEN hi ELSE n
TwoDigits(n) == <<DigitChar(n \div 10), DigitChar(n % 10)>>

\* YYYY-MM-DD
IsYmd(t) ==
  LET f == Fields(t, "-")
  IN Len(f) = 3 /\ IsNumeral(f[1], {4}) /\ IsNumeral(f[2], {2}) /\ IsNumeral(f[3], {2})
\* MM/DD/YYYY, the month and the day of one or two digits
IsMdy(t) ==
  LET f == Fields(t, "/")
  IN Len(f) = 3 /\ IsNumeral(f[1], {1, 2}) /\ IsNumeral(f[2], {1, 2})
     /\ IsNumeral(f[3], {4})
\* H:MM or HH:MM
IsHm(t) ==
  LET f == Fields(t, ":")
  IN Len(f) = 2 /\ IsNumeral(f[1], {1, 2}) /\ IsNumeral(f[2], {2})
\* HH:MM:SS
IsHhMmSs(t) ==
  LET f == Fields(t, ":")
  IN Len(f) = 3 /\ IsNumeral(f[1], {2}) /\ IsNumeral(f[2], {2}) /\ IsNumeral(f[3], {2})
\* H:MM:SS or HH:MM:SS
IsHmS(t) ==
  LET f == Fields(t, ":")
  IN Len(f) = 3 /\ IsNumeral(f[1], {1, 2}) /\ IsNumeral(f[2], {2})
     /\ IsNumeral(f[3], {2})

\* the date the normalizer is said to return for the text t
DateFor(t) ==
  IF IsYmd(t) /\ t # Sentinel THEN Str(t)
  ELSE IF IsMdy(t)
       THEN LET f == Fields(t, "/")
            IN Str(f[3] \o <<"-">> \o TwoDigits(Into(Number(f[1]), 1, 12)) \o <<"-">>
                   \o TwoDigits(Into(Number(f[2]), 1, 31)))
       ELSE Str(today)
\* the time for a text of hour and minute fields, clamped and padded
ClampedTime(t) ==
  LET f == Fields(t, ":")
  IN Str(TwoDigits(Into(Number(f[1]), 0, 23)) \o <<":">>
         \o TwoDigits(Into(Number(f[2]), 0, 59)))

(***************************************************************************)
(* C16.  The record processReceipt.execute returns has receiptDate in the  *)
(* form YYYY-MM-DD and receiptTime in the form HH:MM or absent.            *)
(***************************************************************************)
IsCanonicalDate(v) == IsString(v) /\ IsYmd(v.chars)
IsCanonicalTime(v) ==
  v = Undefined \/ (IsString(v) /\ IsHm(v.chars) /\ Len(v.chars) = 5)

C16_ReturnedRecordNormalized ==
  (HasField(receiptResult, "extractedData") /\ receiptResult.extractedData # Null) =>
    /\ IsCanonicalDate(receiptResult.extractedData.receiptDate)
    /\ IsCanonicalTime(receiptResult.extractedData.receiptTime)

(***************************************************************************)
(* C17.  As stated: normalizeDate returns a YYYY-MM-DD input unchanged, an *)
(* MM/DD/YYYY input as YYYY-MM-DD with the month clamped into 1..12 and    *)
(* the day into 1..31, both of two digits, and today for every other       *)
(* input (the empty string, a non-string, 0000-00-00).                     *)
(***************************************************************************)
C17_DateNormalizerAsStated ==
  dateOut # Pending =>
    dateOut = IF IsString(normInput) THEN DateFor(normInput.chars) ELSE Str(today)

(***************************************************************************)
(* C17, amended.  normalizeDate returns what is stated for the input with  *)
(* its surrounding whitespace trimmed: a padded YYYY-MM-DD or MM/DD/YYYY   *)
(* input is accepted too, and the date is returned without the padding.    *)
(***************************************************************************)
C17_DateNormalizerOnTrimmed ==
  dateOut # Pending =>
    dateOut = IF IsString(normInput) THEN DateFor(Trim(normInput.chars)) ELSE Str(today)

\* " 13/45/2024 " was normalized to 2024-12-31
C17_Witness ==
  /\ normInput = Str(<<" ", "1", "3", "/", "4", "5", "/", "2", "0", "2", "4", " ">>)
  /\ dateOut = Str(<<"2", "0", "2", "4", "-", "1", "2", "-", "3", "1">>)

(***************************************************************************)
(* C18.  As stated: normalizeTime returns, for an input of the form H:MM,  *)
(* HH:MM or HH:MM:SS, the time HH:MM with the hour clamped into 0..23 and  *)
(* the minute into 0..59, and undefined for every other input.             *)
(***************************************************************************)
C18_TimeNormalizerAsStated ==
  timeOut # Pending =>
    timeOut = IF IsString(normInput)
                 /\ (IsHm(normInput.chars) \/ IsHhMmSs(normInput.chars))
              THEN ClampedTime(normInput.chars)
              ELSE Undefined

(***************************************************************************)
(* C18, amended.  normalizeTime returns the clamped HH:MM for an input     *)
(* that, with its surrounding whitespace trimmed, has the form H:MM or     *)
(* HH:MM, or either followed by :SS (so H:MM:SS too), and undefined for    *)
(* every other input.                                                      *)
(***************************************************************************)
C18_TimeNormalizerOnTrimmed ==
  timeOut # Pending =>
    timeOut = IF IsString(normInput)
                 /\ (IsHm(Trim(normInput.chars)) \/ IsHmS(Trim(normInput.chars)))
              THEN ClampedTime(Trim(normInput.chars))
              ELSE Undefined

\* " 99:99:30" was normalized to 23:59
C18_Witness ==
  /\ normInput = Str(<<" ", "9", "9", ":", "9", "9", ":", "3", "0">>)
  /\ timeOut = Str(<<"2", "3", ":", "5", "9">>)

(***************************************************************************)
(* C21.  searchWeb.execute never raises.  Without an API key, on a         *)
(* response that is not ok and on a rejected fetch or body it settles with *)
(* a value that has an error string and no results.                        *)
(***************************************************************************)
IsErrorValue(v) == DOMAIN v = {"error"} /\ v.error # ""
SearchSettled == pc \notin {"fetch", "json"} /\ vendorSearchResult # Pending
SearchRejected ==
  \E i \in 1..Len(consoleLog) : consoleLog[i].label = "Error searching web:"

C21_SearchNeverRaises ==
  /\ [](~IsThrown(vendorSearchResult))
  /\ []((SearchSettled /\ sessionUserId # "" /\ apiKey = "") =>
          vendorSearchResult = [error |-> "Missing TAVILY_API_KEY"])
  /\ []((SearchSettled /\ SearchRejected) => IsErrorValue(vendorSearchResult))
  /\ [][(pc = "fetch" /\ pc' = "vendorSettled") => IsErrorValue(vendorSearchResult')]_vars
  /\ [][(pc = "json" /\ pc' = "vendorSettled" /\ ~SearchRejected') =>
          HasField(vendorSearchResult', "results")]_vars

\* a run returned after the fetch of its vendor search was rejected
C21_Witness ==
  /\ Returned
  /\ SearchRejected
  /\ vendorSearchResult = [error |-> "Failed to search the web"]
  /\ result.vendor = vendorSearchResult

(***************************************************************************)
(* C28.  As stated: processReceipt.execute never raises; when the          *)
(* transcription, the extraction or the saving failed it returns the       *)
(* error value; and data-finish is written by it if and only if it returns *)
(* the success value with extractedData.                                   *)
(***************************************************************************)
ProcessReceiptError == [error |-> "Failed to process receipt. Please try again."]
ProcessReceiptSettled == receiptResult # Pending
\* the data-finish parts written by processReceipt.execute (runWorkflow writes one
\* more when it returns)
AdapterFinishes == CountType("data-finish") - (IF Returned THEN 1 ELSE 0)
FinishIffSuccess ==
  AdapterFinishes = IF HasField(receiptResult, "extractedData") THEN 1 ELSE 0

C28_AnyFailureReturnsError ==
  /\ ~IsThrown(receiptResult)
  /\ FinishIffSuccess
  /\ (ProcessReceiptSettled /\ (ocrFailed \/ StructuredExtractionFailed \/ SaveFailed)) =>
       receiptResult = ProcessReceiptError

(***************************************************************************)
(* C28, amended.  processReceipt.execute never raises; when the extraction *)
(* or the saving failed it returns the error value, while a failed         *)
(* transcription alone is absorbed and does not make it return the error   *)
(* value; and data-finish is written by it if and only if it returns the   *)
(* success value with extractedData.                                       *)
(***************************************************************************)
C28_ExtractOrSaveFailureReturnsError ==
  /\ ~IsThrown(receiptResult)
  /\ FinishIffSuccess
  /\ ProcessReceiptSettled =>
       IF StructuredExtractionFailed \/ SaveFailed
       THEN receiptResult = ProcessReceiptError
       ELSE HasField(receiptResult, "extractedData")

\* the saving failed after a failed transcription, and the error value came back
C28_Witness ==
  /\ ocrFailed
  /\ SaveFailed
  /\ receiptResult = ProcessReceiptError
  /\ AdapterFinishes = 0
  /\ Returned

(***************************************************************************)
(* C29.  saveReceipt is called only with a session user id and an          *)
(* extracted record; saveReceiptItems is called only after saveReceipt     *)
(* returned its row in the same call and only for a record with at least   *)
(* one item; the tables change at no other point.                          *)
(***************************************************************************)
C29_GuardedHeaderThenItems ==
  /\ [](pc = "saveReceipt" => sessionUserId # "" /\ extractedData # Null)
  /\ [](pc = "saveReceiptItems" =>
          /\ savedReceipt # Undefined
          /\ \E i \in 1..Len(db.receipt) : db.receipt[i] = savedReceipt
          /\ Len(extractedData.items) > 0)
  /\ []((sessionUserId = "" \/ delivered = <<>>) => db = [receipt |-> <<>>, receiptItem |-> <<>>])
  /\ [](\A i \in 1..Len(db.receiptItem) :
          \E j \in 1..Len(db.receipt) : db.receipt[j].id = db.receiptItem[i].receiptId)
  /\ [][db.receipt' # db.receipt => pc = "saveReceipt"]_vars
  /\ [][db.receiptItem' # db.receiptItem => pc = "saveReceiptItems"]_vars

\* a run saved the header and then the items of its record
C29_Witness ==
  /\ Returned
  /\ Len(db.receipt) = 1
  /\ Len(db.receiptItem) = 1
  /\ db.receiptItem[1].receiptId = db.receipt[1].id

(***************************************************************************)
(* C30.  With today fixed, every output of normalizeDate has the form      *)
(* YYYY-MM-DD, is not 0000-00-00, and is returned unchanged when it is     *)
(* normalized again.                                                       *)
(***************************************************************************)
C30_DateNormalizerIdempotent ==
  dateOut # Pending =>
    /\ IsString(dateOut)
    /\ IsYmd(dateOut.chars)
    /\ dateOut.chars # Sentinel
    /\ normalizeDate(dateOut) = dateOut

\* the sentinel, padded, was normalized to today
C30_Witness ==
  /\ IsString(normInput)
  /\ normInput.chars # Sentinel
  /\ Trim(normInput.chars) = Sentinel
  /\ dateOut = Str(today)

(***************************************************************************)
(* C22.  As stated: a settled lookup has sent exactly one request to the   *)
(* provider, and the count it asked for is within 1..10: the count given   *)
(* brought into that range, 5 when none is given.                          *)
(***************************************************************************)
LookupSettled == searchInput # Undefined /\ pc = "vendorSettled"
\* the count a lookup is said to ask for
CountFor(input) ==
  IF ~HasField(input, "maxResults") THEN 5
  ELSE IF input.maxResults < 1 THEN 1
  ELSE IF input.maxResults > 10 THEN 10
  ELSE input.maxResults
RequestsWellFormed ==
  \A i \in 1..Len(requests) :
    /\ requests[i].max_results \in 1..10
    /\ requests[i].max_results = CountFor(searchInput)
    /\ requests[i].query = searchInput.query

C22_ExactlyOneRequest ==
  /\ RequestsWellFormed
  /\ LookupSettled => Len(requests) = 1

(***************************************************************************)
(* C22, amended.  A lookup sends at most one request to the provider:      *)
(* exactly one when the session has a user id and the API key is set, and  *)
(* none otherwise; the count a request asks for is within 1..10: the count *)
(* given brought into that range, 5 when none is given.                    *)
(***************************************************************************)
C22_OneRequestWhenAuthorized ==
  /\ RequestsWellFormed
  /\ searchInput # Undefined =>
       Len(requests) = IF sessionUserId # "" /\ apiKey # "" THEN 1 ELSE 0

\* a lookup asking for 50 results settled after one request for 10
C22_Witness ==
  /\ LookupSettled
  /\ searchInput = [query |-> "Acme official site address reviews", maxResults |-> 50]
  /\ Len(requests) = 1
  /\ requests[1].max_results = 10
  /\ HasField(vendorSearchResult, "results")

(***************************************************************************)
(* Reading the log of the store's calls.                                   *)
(***************************************************************************)
\* the receipt `id` was in the Receipt table when call k was made
ExistedAt(k, id) ==
  \E j \in 1..(k - 1) :
    /\ storeLog[j].op = "saveReceipt"
    /\ storeLog[j].receiptId = id
    /\ \A l \in (j + 1)..(k - 1) :
         ~(storeLog[l].op = "deleteReceipt" /\ storeLog[l].receiptId = id)
ItemsSavedAt(k) == storeLog[k].op = "saveReceiptItems" /\ ~IsThrown(storeLog[k].outcome)

(***************************************************************************)
(* C23.  saveReceiptItems called for a stored receipt does not fail for    *)
(* items without quantity or totalPrice: it stores quantity 1 and          *)
(* totalPrice 0 for them.                                                  *)
(***************************************************************************)
C23_ItemsSavedWithDefaults ==
  \A k \in 1..Len(storeLog) :
    (storeLog[k].op = "saveReceiptItems" /\ ExistedAt(k, storeLog[k].receiptId)) =>
      /\ ~IsThrown(storeLog[k].outcome)
      /\ \A i \in 1..Len(storeLog[k].items) :
           LET item == storeLog[k].items[i]
               row == storeLog[k].outcome.rows[i]
           IN /\ row.quantity = IF HasField(item, "quantity") THEN item.quantity ELSE 1
              /\ row.totalPrice =
                   IF HasField(item, "totalPrice") THEN ToString(item.totalPrice) ELSE "0"

(***************************************************************************)
(* C24.  After any sequence of saveReceipt, saveReceiptItems and           *)
(* deleteReceipt calls every ReceiptItem row references a row of the       *)
(* Receipt table.                                                          *)
(***************************************************************************)
C24_NoOrphanItems ==
  \A i \in 1..Len(db.receiptItem) : db.receiptItem[i].receiptId \in ReceiptIds

\* a receipt whose items had been saved was deleted
C24_Witness ==
  \E k \in 1..Len(storeLog) :
    /\ storeLog[k].op = "deleteReceipt"
    /\ storeLog[k].outcome # Undefined
    /\ \E j \in 1..(k - 1) :
         /\ ItemsSavedAt(j)
         /\ storeLog[j].receiptId = storeLog[k].receiptId
         /\ ExistedAt(j, storeLog[j].receiptId)
         /\ \A l \in (j + 1)..(k - 1) : storeLog[l].op # "deleteReceipt"

(***************************************************************************)
(* C27.  After any sequence of parts, metadata.data of the receipt         *)
(* artifact is the payload of the last data-receipt part received (and is  *)
(* not set before the first one): a data-receipt part replaces the record, *)
(* a part of another type leaves it as it is.                              *)
(***************************************************************************)
ReceiptPartIndices == {i \in 1..Len(streamParts) : streamParts[i].type = "data-receipt"}
LastReceiptPayload ==
  IF ReceiptPartIndices = {} THEN Undefined
  ELSE streamParts[CHOOSE i \in ReceiptPartIndices : \A j \in ReceiptPartIndices : j <= i].data

C27_ShowsLastReceiptPart == MetadataData(metadata) = LastReceiptPayload

\* two different records were received, then a part of another type
C27_Witness ==
  /\ Len(streamParts) = 3
  /\ streamParts[1].type = "data-receipt"
  /\ streamParts[2].type = "data-receipt"
  /\ streamParts[1] # streamParts[2]
  /\ streamParts[3].type = "data-clear"
  /\ metadata = [data |-> streamParts[2].data]

(***************************************************************************)
(* C26.  If every adapter call eventually returns or throws, a run with a  *)
(* recognised name eventually emits the finish part and returns its        *)
(* result, or aborts on the extraction failure path; it has no result      *)
(* before every step has its outcome.  (The run moves only when the        *)
(* adapter it waits for responds: without the fairness of LiveSpec the run *)
(* may stay at any await forever.)                                         *)
(***************************************************************************)
Waiting == pc \notin {"idle", "done", "aborted"}
RunFinished ==
  /\ pc = "done"
  /\ HasField(result, "success")
  /\ events[Len(events)].type = "data-finish"
RunAborted ==
  /\ pc = "aborted"
  /\ IsThrown(result)
  /\ CountStep("data-step-error", "extract") = 1
AllStepsResolved == \A s \in StepNames : Outcomes(s) = 1

C26_RunsTerminate ==
  /\ [](name = "receipt_enrichment" /\ Waiting => result = Pending)
  /\ [](name = "receipt_enrichment" /\ result # Pending =>
          \/ RunFinished /\ AllStepsResolved
          \/ RunAborted)
  /\ (name = "receipt_enrichment" /\ Waiting) ~> (RunFinished \/ RunAborted)

\* a run whose lookup found nothing and whose categorization failed has returned
C26_Witness ==
  /\ RunFinished
  /\ AllStepsResolved
  /\ requests # <<>>
  /\ CountStep("data-step-error", "categorize") = 1

(***************************************************************************)
(* C25.  With two runs interleaved at their awaits, the accumulator of     *)
(* each run holds only what that run's own adapters answered; the receipt, *)
(* categorization and vendor a run returns and merges are the ones of its  *)
(* own accumulator; and a run's accumulator changes only in a step of that *)
(* run.                                                                    *)
(***************************************************************************)
AnsweredOr(v, missing) == IF v = Pending \/ IsThrown(v) THEN missing ELSE v
OwnAccumulator(r) ==
  LET q == runs[r]
  IN /\ q.ctx.receipt =
          IF q.receiptResult # Pending /\ Truthy(q.receiptResult.extractedData)
          THEN q.receiptResult.extractedData ELSE Undefined
     /\ q.receiptResult # Pending => q.receiptResult.extractedData \in {Null, RunObject(r)}
     /\ q.ctx.merchantInfo = AnsweredOr(q.vendorSearchResult, Undefined)
     /\ q.vendorSearchResult \in RunSearchResults(r) \cup {Pending}
     /\ q.ctx.categorization = AnsweredOr(q.cat, Undefined)
     /\ q.cat \in RunCats(r) \cup {Pending}
OwnResult(r) ==
  LET q == runs[r]
  IN q.pc = "done" =>
       /\ q.result.receipt = q.ctx.receipt
       /\ q.result.categorization = q.ctx.categorization
       /\ q.result.vendor = q.ctx.merchantInfo
       /\ q.enriched = IF Truthy(q.ctx.receipt)
                       THEN [categorization |-> q.ctx.categorization,
                             vendor |-> FirstResult(q.ctx.merchantInfo)] @@ q.ctx.receipt
                       ELSE Undefined

C25_AccumulatorsPrivate ==
  /\ [](\A r \in Runs : OwnAccumulator(r) /\ OwnResult(r))
  /\ [][\A r \in Runs : runs'[r].ctx # runs[r].ctx => runs'[r].pc # runs[r].pc]_vars

\* both runs were in flight together, and both returned a receipt with a vendor
C25_Witness ==
  /\ \A r \in Runs : runs[r].pc = "done" /\ Found(runs[r].result.vendor)
                     /\ runs[r].result.receipt = RunObject(r)
  /\ \E i, j \in 1..Len(events) :
        /\ i < j
        /\ events[i].type = "data-step-start" /\ events[i].data.step = "extract"
        /\ events[j].type = "data-step-start" /\ events[j].data.step = "extract"
        /\ \A k \in 1..j : events[k].type # "data-step-success"

====
